---- MODULE Spec2Model ----
(***************************************************************************)
(* Message expansion pipeline of telequery: the Expansion Orchestrator     *)
(* (ExpansionService.process_new_messages) driving the Contextualizer      *)
(* (MessageContextualizer.expand_batch_and_save) against the Message Store *)
(* and the Expansion Store, with several orchestrator processes running    *)
(* against the same two SQLite databases.                                  *)
(***************************************************************************)
EXTENDS Integers, Sequences, FiniteSets, Bags, TLC

VARIABLES
    messages,        \* Message Store: rows of table messages (never written here)
    expansions,      \* Expansion Store: bag of committed rows of message_expansions
    writeLock,       \* writer holding the SQLite write transaction, or NoWriter
    active,          \* orchestrator processes of this configuration
    run_limit,       \* runs each orchestrator makes in this configuration
    sizes,           \* batch sizes the callers of this configuration pass
    pc,              \* position of each orchestrator in process_new_messages
    runs,            \* runs of process_new_messages started by each orchestrator
    batch_size,      \* argument batch_size of the current run
    processed_ids,   \* processed_ids read at the start of the run
    new_messages,    \* pending list of the run, chronologically ascending
    batch_start,     \* batch_start of the while loop
    batch_end,       \* batch_end of the current batch
    total_processed, \* total_processed of the run
    ret,             \* value returned by the last finished run
    items_left,      \* items of the model response not yet iterated
    saved_count,     \* saved_count of the current batch
    session,         \* expansion_session: unflushed and flushed rows, failed flag
    outcome,         \* how the last batch of each orchestrator ended
    flush_error,     \* cause of a failed flush in the current batch
    requested,       \* batch_ids asked for in the prompt of the current batch
    attempted,       \* message ids handed to expand_batch_and_save in this run
    run_saved,       \* ids requested and committed by earlier batches of this run
    skipped,         \* the last iteration of the save loop met an existing row
    last_ids,        \* message ids committed by the last commit of each orchestrator
    left_after,      \* eligible ids without a row when the last run returned
    processed_count, \* processed_count: what the last expand_batch_and_save returned
    win,             \* batch-window computation: [n, B, start, out, done]
    query,           \* one process_query call: its inputs, position and results
    stats,           \* what the last get_expansion_stats returned, or NoStats
    provider,        \* LLMFactory: the environment and the create_provider calls
    vindex,          \* Vector Index: the search tool of the process and its entries
    prompt           \* expansion prompt of each orchestrator's latest batch

vars == <<messages, expansions, writeLock, active, run_limit, sizes, pc, runs,
          batch_size,
          processed_ids, new_messages, batch_start, batch_end, total_processed,
          ret, items_left, saved_count, session, outcome, flush_error,
          requested, attempted, run_saved, skipped, last_ids, left_after,
          processed_count, win, query, stats, provider, vindex, prompt>>

runVars == <<messages, expansions, writeLock, active, run_limit, sizes, pc, runs,
             batch_size,
             processed_ids, new_messages, batch_start, batch_end,
             total_processed, ret, items_left, saved_count, session, outcome,
             flush_error, requested, attempted, run_saved, skipped,
             last_ids, left_after, processed_count>>

\* State of the services beside the runs, the window computation and the query,
\* and the prompt of the latest batch.
svcVars == <<stats, provider, vindex, prompt>>

-----------------------------------------------------------------------------
(* Bounds of the model *)

MaxMsgs == 2          \* messages in the store, concurrent configuration
MaxSeqMsgs == 6       \* messages in the store, single-orchestrator configuration
MaxItems == 2         \* items in one model response
MaxRuns == 2          \* runs of process_new_messages of a lone orchestrator
MaxConcRuns == 1      \* runs of each of two concurrent orchestrators
MaxOverlapRuns == 1   \* runs over the large store
MaxWinMsgs == 12      \* pending messages of the window computation
MaxWinBatch == 12     \* batch sizes of the window computation
MaxQueryMsgs == 2     \* messages in the store of a query
MaxCands == 4         \* candidates the Vector Index returns to a query
MaxStartups == 3      \* starts of the process, each with its startup check
MaxCalls == 3         \* calls of create_provider
MaxServed == 2        \* queries served by the process

(* Program constants *)

OverlapCap == 10      \* min(10, batch_size // 5)
OverlapDiv == 5
ContextWindow == 10   \* context_window of _get_batch_with_context
DefaultBatchSize == 50

Writers == {"w1", "w2"}
NoWriter == "none"

Min(a, b) == IF a <= b THEN a ELSE b

-----------------------------------------------------------------------------
(* Message Store *)

\* Message.text is a nullable Text column: a sequence of characters, or Null.
Null == <<"NULL">>
TextValues == {Null, <<>>, <<" ">>, <<"h", "i">>}

IsSpace(c) == c = " "

\* str.strip(): drops leading and trailing whitespace.
RECURSIVE LStrip(_)
LStrip(s) == IF s # <<>> /\ IsSpace(Head(s)) THEN LStrip(Tail(s)) ELSE s

RECURSIVE RStrip(_)
RStrip(s) ==
    IF s # <<>> /\ IsSpace(s[Len(s)]) THEN RStrip(SubSeq(s, 1, Len(s) - 1)) ELSE s

Strip(s) == RStrip(LStrip(s))

\* WHERE text IS NOT NULL AND text != ''
Eligible(m) == m.text # Null /\ m.text # <<>>

\* msg.text and msg.text.strip()
HasText(m) == m.text # Null /\ m.text # <<>> /\ Strip(m.text) # <<>>

\* Message.message_id: str(telegram_id)
MessageId(m) == ToString(m.telegram_id)

\* ORDER BY telegram_date ASC over a set of rows with distinct dates.
RECURSIVE OrderByDate(_)
OrderByDate(S) ==
    IF S = {} THEN <<>>
    ELSE LET first == CHOOSE m \in S : \A o \in S : m.telegram_date <= o.telegram_date
         IN <<first>> \o OrderByDate(S \ {first})

Reverse(s) == [i \in 1..Len(s) |-> s[Len(s) + 1 - i]]

SeqToSet(s) == {s[i] : i \in 1..Len(s)}

-----------------------------------------------------------------------------
(* Expansion Store: table message_expansions and the SQLAlchemy session *)

NullText == "<null>"       \* JSON null in expanded_text
MissingText == "<missing>" \* no key expanded_text in the item
GoodText == "<text>"       \* expanded_text holds a string

\* response.model: the provider's model label.
ModelOf(w) == IF w = "w1" THEN "gpt-4o-mini" ELSE "claude-3-haiku-20240307"

StoreRows(store) == BagToSet(store)

RowIds(rows) == {r.message_id : r \in rows}

\* The table declared without a primary key.
PKViolation_NoKey(row, rows) == FALSE

\* message_id = Column(String, primary_key=True)
PKViolation(row, rows) == row.message_id \in RowIds(rows)

\* expanded_text = Column(Text, nullable=False)
NotNullViolation(row) == row.expanded_text = NullText

CleanSession == [pending |-> <<>>, flushed |-> {}, failed |-> FALSE]

\* INSERT of the session's new rows, in the order they were added, into the
\* table as this transaction sees it: "none", or the constraint that failed.
RECURSIVE InsertError(_, _)
InsertError(pending, visible) ==
    IF pending = <<>> THEN "none"
    ELSE IF NotNullViolation(Head(pending)) THEN "not_null"
    ELSE IF PKViolation(Head(pending), visible) THEN "dup_key"
    ELSE InsertError(Tail(pending), visible \cup {Head(pending)})

\* Rows a session's queries see: the committed rows and its own flushed rows.
Visible(sess, store) == StoreRows(store) \cup sess.flushed

\* Session.flush(): a flush with nothing new does not touch the database.
FlushError(sess, store) == InsertError(sess.pending, Visible(sess, store))

\* SQLite admits one write transaction at a time.
CanWrite(w, sess) == sess.pending = <<>> \/ writeLock \in {NoWriter, w}

Flushed(sess) ==
    [sess EXCEPT !.pending = <<>>, !.flushed = @ \cup SeqToSet(sess.pending)]

\* A flush that fails outside commit(): the transaction is rolled back and the
\* session refuses further work until rollback() is called.
FailedSession == [pending |-> <<>>, flushed |-> {}, failed |-> TRUE]

\* The save loop without its duplicate check.
Existing_Unchecked(message_id, sess, store) == FALSE

\* session.query(MessageExpansion).filter_by(message_id=...).first()
Existing(message_id, sess, store) == message_id \in RowIds(Visible(sess, store))

-----------------------------------------------------------------------------
(* Model response *)

MissingId == [t |-> "missing", n |-> 0, s |-> ""]
IntId(i) == [t |-> "int", n |-> i, s |-> ""]
StrId(i) == [t |-> "str", n |-> 0, s |-> ToString(i)]

\* str(expansion_data["message_id"])
PyStr(raw) == IF raw.t = "int" THEN ToString(raw.n) ELSE raw.s

TelegramIds == {m.telegram_id : m \in messages}

\* An identifier no message has.
InventedId == Cardinality(messages) + 1

OutIds == TelegramIds \cup {InventedId}

RawIds == {IntId(i) : i \in OutIds} \cup {StrId(i) : i \in OutIds} \cup {MissingId}

Items == [message_id : RawIds, expanded_text : {GoodText, NullText, MissingText}]

\* The text the model wrote: opaque, and different from one call site to
\* another (one orchestrator's run from another's, and from its earlier runs).
OutText(w, run) == w \o "#" \o ToString(run)

-----------------------------------------------------------------------------
(* Expansion Orchestrator: ExpansionService.process_new_messages *)

\* processed_ids = {pid[0] for pid in processed_ids_query}
ProcessedIds(store) == RowIds(StoreRows(store))

\* The pending query without the filter on processed ids.
NewMessages_Unfiltered(pids) == OrderByDate({m \in messages : Eligible(m)})

\* all_results filtered by "str(row[1]) not in processed_ids".
NewMessages(pids) ==
    LET all_results == OrderByDate({m \in messages : Eligible(m)})
    IN IF pids # {}
       THEN SelectSeq(all_results, LAMBDA m : MessageId(m) \notin pids)
       ELSE all_results

\* An overlap as large as the batch.
Overlap_Whole(B) == B

\* overlap_size = min(10, batch_size // 5)
Overlap(B) == Min(OverlapCap, B \div OverlapDiv)

\* batch_end = min(batch_start + batch_size, len(new_messages))
BatchEnd(start, B, n) == Min(start + B, n)

\* The advance with the overlap added instead of subtracted.
NextStart_Forward(end, overlap) == end + overlap

\* batch_start = batch_end - overlap_size; if batch_start <= 0: batch_start = batch_end
NextStart(end, overlap) == IF end - overlap <= 0 THEN end ELSE end - overlap

\* if batch_end >= len(new_messages): break
LastBatch(end, n) == end >= n

\* A loop that gives up at the first batch that did not commit.
LoopEnds_OnFailure(end, n, how) == end >= n \/ how # "committed"

\* The loop ends after the last window only: an exception of a batch is
\* logged and the loop goes on; "how" is how the batch ended.
LoopEnds(end, n, how) == LastBatch(end, n)

\* Eligible messages without a committed row.
Uncovered(store) == {MessageId(m) : m \in {x \in messages : Eligible(x)}} \ ProcessedIds(store)

-----------------------------------------------------------------------------
(* Vector Index: MessageSearchTool.populate_search_index *)

\* _get_searchable_text: the expanded text of the message's Expansion row when
\* there is one with a text, else the raw text.
SearchableText(m, store) ==
    LET rows == {r \in StoreRows(store) : r.message_id = MessageId(m)}
    IN IF rows # {} /\ (CHOOSE r \in rows : TRUE).expanded_text # ""
       THEN [from |-> "expansion", text |-> (CHOOSE r \in rows : TRUE).expanded_text]
       ELSE [from |-> "raw", text |-> ToString(m.text)]

\* populate_search_index: nothing when no message has text; else the
\* collection is deleted and rebuilt, one entry per message with a
\* searchable text.
PopulateSearchIndex(msgs, store, entries) ==
    LET all_source_messages == {m \in msgs : Eligible(m)}
    IN IF all_source_messages = {} THEN entries
       ELSE {[message_id |-> MessageId(m), document |-> SearchableText(m, store)] :
                 m \in all_source_messages}

\* A query that stores the query text as an entry of the collection.
QueryCollection_Upsert(ix, query_text) ==
    [ix EXCEPT !.entries = @ \cup {[message_id |-> "query",
                                     document |-> [from |-> "query",
                                                   text |-> ToString(query_text)]]}]

\* collection.query(query_texts=[...], n_results=100, ...): the collection
\* after the query.
QueryCollection(ix, query_text) == ix

\* The index of a process whose search tool was built over these stores.
PopulatedIndex(msgs, store) ==
    [tool |-> TRUE, entries |-> PopulateSearchIndex(msgs, store, {}), served |-> 0]

\* get_search_tool: the tool is built and the index populated on the first
\* use of the process only.
SearchToolEntries(ix, msgs, store) ==
    IF ix.tool THEN ix.entries ELSE PopulateSearchIndex(msgs, store, ix.entries)

-----------------------------------------------------------------------------
(* LLM Factory: LLMFactory.create_provider *)

\* _providers: the registry, name to provider class.
Registry == {"openai", "anthropic"}

ProviderClass(name) == IF name = "openai" THEN "OpenAIProvider" ELSE "AnthropicProvider"

\* A resolution that does not read the environment.
Resolve_IgnoreEnv(provider_name, env) ==
    IF provider_name # <<>> /\ provider_name[1] # "" THEN provider_name[1]
    ELSE "openai"

\* provider_name or os.getenv("LLM_PROVIDER", "openai"): None and the empty
\* string are falsy; a variable set to the empty string is returned as it is.
Resolve(provider_name, env) ==
    IF provider_name # <<>> /\ provider_name[1] # "" THEN provider_name[1]
    ELSE IF env # <<>> THEN env[1]
    ELSE "openai"

\* The message of the ValueError.
UnknownProvider(name) ==
    "Unknown provider: " \o name \o ". Available providers: ['openai', 'anthropic']"

\* create_provider: the resolved name, the ValueError raised or the instance
\* constructed, each absent as <<>>.
CreateProvider(provider_name, env) ==
    LET name == Resolve(provider_name, env)
    IN IF name \notin Registry
       THEN [provider_name |-> provider_name, resolved |-> name,
             error |-> <<UnknownProvider(name)>>, instance |-> <<>>]
       ELSE [provider_name |-> provider_name, resolved |-> name,
             error |-> <<>>, instance |-> <<ProviderClass(name)>>]

-----------------------------------------------------------------------------
(* Statistics: ExpansionService.get_expansion_stats *)

\* completion_percentage, in hundredths of a percent:
\* (expanded_messages / total_messages * 100) if total_messages > 0 else 0
CompletionPercentage(expanded_messages, total_messages) ==
    IF total_messages > 0 THEN (expanded_messages * 10000) \div total_messages ELSE 0

\* Statistics that count the messages the contextualizer would expand.
ExpansionStats_Stripped(msgs, store) ==
    LET total_messages == Cardinality({m \in msgs : HasText(m)})
        expanded_messages == BagCardinality(store)
    IN [read |-> TRUE,
        total_messages |-> total_messages,
        expanded_messages |-> expanded_messages,
        pending_messages |-> total_messages - expanded_messages,
        completion_percentage |->
            CompletionPercentage(expanded_messages, total_messages)]

\* get_expansion_stats: COUNT(*) of the messages WHERE text IS NOT NULL AND
\* text != '', and the count of the rows of message_expansions.
ExpansionStats(msgs, store) ==
    LET total_messages == Cardinality({m \in msgs : Eligible(m)})
        expanded_messages == BagCardinality(store)
    IN [read |-> TRUE,
        total_messages |-> total_messages,
        expanded_messages |-> expanded_messages,
        pending_messages |-> total_messages - expanded_messages,
        completion_percentage |->
            CompletionPercentage(expanded_messages, total_messages)]

\* if stats['pending_messages'] > 0
ShouldProcess(s) == s.pending_messages > 0

-----------------------------------------------------------------------------
(* Contextualizer: MessageContextualizer *)

Take(s, k) == SubSeq(s, 1, Min(k, Len(s)))

\* _get_batch_with_context: up to context_window earlier messages of the chat
\* of the earliest batch message, oldest first, then the batch by date.
GetBatchWithContext(batch) ==
    IF batch = <<>> THEN <<>>
    ELSE LET earliest == Head(OrderByDate(SeqToSet(batch)))
             before == {m \in messages : /\ m.chat_id = earliest.chat_id
                                         /\ m.telegram_date < earliest.telegram_date}
             context_messages == Take(Reverse(OrderByDate(before)), ContextWindow)
         IN Reverse(context_messages) \o OrderByDate(SeqToSet(batch))

\* A filter that keeps every message the pending query selects.
ValidMessages_Eligible(batch) == SelectSeq(batch, Eligible)

\* valid_messages = [msg for msg in batch_messages if msg.text and msg.text.strip()]
ValidMessages(batch) == SelectSeq(batch, HasText)

\* batch_ids = [msg.message_id for msg in batch_messages]
BatchIds(batch) == [i \in 1..Len(batch) |-> MessageId(batch[i])]

\* _create_batch_expansion_prompt: the messages listed in the chat chunk, in
\* order, and the identifiers the model is asked to expand.
CreateBatchExpansionPrompt(batch_messages, context_messages) ==
    [listed |-> context_messages \o batch_messages,
     batch_ids |-> BatchIds(batch_messages)]

\* expand_batch_and_save up to the model call, for a batch with valid messages:
\* context_messages = self._get_batch_with_context(valid_messages), then
\* self._create_batch_expansion_prompt(valid_messages, context_messages).
ExpansionPrompt(batch) ==
    LET valid_messages == ValidMessages(batch)
        context_messages == GetBatchWithContext(valid_messages)
        p == CreateBatchExpansionPrompt(valid_messages, context_messages)
    IN [built |-> TRUE, batch |-> batch, listed |-> p.listed,
        batch_ids |-> p.batch_ids]

\* Outcomes of the steps before the save loop: the context query raising, the
\* model call raising, a response that is not valid JSON, a parsed response.
CallOutcomes == {"ctx_raise", "llm_raise", "bad_json", "parsed"}

\* A failure path that reports the batch as saved.
FailedBatchCount_One(how) == 1

\* "return 0" of a failed model call or parse.
FailedBatchCount(how) == 0

\* The row built from one item of the response.
NewRow(w, item) ==
    [message_id |-> PyStr(item.message_id),
     expanded_text |-> IF item.expanded_text = GoodText
                       THEN OutText(w, runs[w]) ELSE item.expanded_text,
     model_used |-> ModelOf(w)]

\* What commit() writes: the rows of the transaction, inserted.
CommitRows(store, rows) == store (+) SetToBag(rows)

-----------------------------------------------------------------------------
(* Search Engine: MessageSearchTool.search_relevant_messages *)

\* Optional values: None, or a value.
None == <<>>
Some(x) == <<x>>

\* Cosine distances in hundredths: 0.75 is 75.
DISTANCE_THRESHOLD == 75

\* A rewrite that answers nothing when the model call fails.
RewriteQuery_Empty(original_query, raised, content) ==
    IF raised THEN <<>> ELSE Strip(content)

\* _rewrite_query: response.content.strip(), or the original query when
\* anything in it raises.
RewriteQuery(original_query, raised, content) ==
    IF raised THEN original_query ELSE Strip(content)

\* SearchToolOutput(messages=[], total_found=0)
EmptyOutput ==
    [raised |-> FALSE, messages |-> <<>>, total_found |-> 0,
     messages_with_scores |-> None, rewritten_query |-> None]

\* The search raising to its caller.
RaisedOutput == [EmptyOutput EXCEPT !.raised = TRUE]

\* A vector query whose exception reaches the caller.
OnIndexError_Raise == RaisedOutput

\* "except Exception" around collection.query
OnIndexError == EmptyOutput

\* A threshold that is inclusive.
TooFar_Inclusive(distance) == distance >= DISTANCE_THRESHOLD

\* if distance > DISTANCE_THRESHOLD: continue
TooFar(distance) == distance > DISTANCE_THRESHOLD

\* The candidates the loop over results["metadatas"][0] keeps, in rank order.
Retained(candidates) == SelectSeq(candidates, LAMBDA c : ~TooFar(c.distance))

\* message_ids
MessageIds(candidates) ==
    [i \in 1..Len(Retained(candidates)) |-> Retained(candidates)[i].message_id]

\* message_scores[message_id] = 1.0 - distance: the last entry of an id wins.
MessageScore(candidates, message_id) ==
    LET kept == Retained(candidates)
        at == {i \in 1..Len(kept) : kept[i].message_id = message_id}
    IN IF at = {} THEN 0
       ELSE 100 - kept[CHOOSE i \in at : \A j \in at : j <= i].distance

\* mid.isdigit() and int(mid), over the identifiers of the model.
DigitIds == {ToString(i) : i \in 0..9}
IsDigit(mid) == mid \in DigitIds
ToInt(mid) == CHOOSE i \in 0..9 : ToString(i) = mid

\* int_message_ids
IntMessageIds(message_ids) ==
    LET digits == SelectSeq(message_ids, IsDigit)
    IN [i \in 1..Len(digits) |-> ToInt(digits[i])]

\* SELECT * FROM messages WHERE telegram_id IN (...): the rows, as a set.
SelectByIds(int_message_ids) ==
    {m \in messages : m.telegram_id \in SeqToSet(int_message_ids)}

\* The orders in which the store can return a set of rows.
RowOrders(rows) ==
    {order \in [1..Cardinality(rows) -> rows] :
        \A i, j \in 1..Cardinality(rows) : i # j => order[i] # order[j]}

\* TelegramMessage(message_id=str(telegram_id), ..., text=db_message.text or "")
TelegramMessage(row) ==
    [message_id |-> ToString(row.telegram_id),
     text |-> IF row.text = Null THEN <<>> ELSE row.text]

\* The inner loop without its break: every row of the fetch with this
\* identifier.
RECURSIVE FirstMatch_All(_, _)
FirstMatch_All(db_messages, message_id) ==
    IF db_messages = <<>> THEN <<>>
    ELSE (IF ToString(Head(db_messages).telegram_id) = message_id
          THEN <<Head(db_messages)>> ELSE <<>>)
         \o FirstMatch_All(Tail(db_messages), message_id)

\* The inner loop "for db_message in db_messages ... break": the first row of
\* the fetch with this identifier, if any.
RECURSIVE FirstMatch(_, _)
FirstMatch(db_messages, message_id) ==
    IF db_messages = <<>> THEN <<>>
    ELSE IF ToString(Head(db_messages).telegram_id) = message_id
         THEN <<Head(db_messages)>>
    ELSE FirstMatch(Tail(db_messages), message_id)

\* A hydration that returns the rows in the order of the fetch.
RECURSIVE Hydrate_FetchOrder(_, _)
Hydrate_FetchOrder(message_ids, db_messages) ==
    IF db_messages = <<>> THEN <<>>
    ELSE (IF ToString(Head(db_messages).telegram_id) \in SeqToSet(message_ids)
          THEN <<Head(db_messages)>> ELSE <<>>)
         \o Hydrate_FetchOrder(message_ids, Tail(db_messages))

\* The outer loop "for message_id in message_ids": the rows in rank order.
RECURSIVE Hydrate(_, _)
Hydrate(message_ids, db_messages) ==
    IF message_ids = <<>> THEN <<>>
    ELSE FirstMatch(db_messages, Head(message_ids))
         \o Hydrate(Tail(message_ids), db_messages)

\* expansion_session.query(MessageExpansion).filter(message_id == ...).first()
ExpandedText(message_id) ==
    LET found == {r \in StoreRows(expansions) : r.message_id = message_id}
    IN IF found = {} THEN None ELSE Some((CHOOSE r \in found : TRUE).expanded_text)

\* MessageWithScore(message, relevance_score, expanded_text)
MessageWithScore(candidates, row) ==
    [message |-> TelegramMessage(row),
     relevance_score |-> MessageScore(candidates, ToString(row.telegram_id)),
     expanded_text |-> ExpandedText(ToString(row.telegram_id))]

\* search_relevant_messages after a vector query that returned candidates,
\* with db_messages the rows as the store returned them.
SearchOutput(debug, rewritten_query, candidates, db_messages) ==
    IF candidates = <<>> THEN EmptyOutput
    ELSE LET rows == Hydrate(MessageIds(candidates), db_messages)
             telegram_messages == [i \in 1..Len(rows) |-> TelegramMessage(rows[i])]
         IN [raised |-> FALSE,
             messages |-> telegram_messages,
             total_found |-> Len(telegram_messages),
             messages_with_scores |->
                 IF debug
                 THEN Some([i \in 1..Len(rows) |-> MessageWithScore(candidates, rows[i])])
                 ELSE None,
             rewritten_query |-> Some(rewritten_query)]

-----------------------------------------------------------------------------
(* Query Agent: TelequeryAgent.process_query *)

DefaultMaxContext == 100   \* max_context_messages: int = 100

NoResultsText == "I couldn't find any relevant messages to answer your question."
ErrorPrefix == "An error occurred while processing your query: "

NoResultsResponse ==
    [answer_text |-> NoResultsText, source_messages |-> <<>>,
     status |-> "no_results", rewritten_query |-> None]

\* str(e) of the exception a step raised.
ExceptionMessage(step) == "<" \o step \o " failed>"

\* An agent that lets the exception through to its caller.
ErrorResponse_Reraise(e) ==
    [answer_text |-> e, source_messages |-> <<>>, status |-> "raised",
     rewritten_query |-> None]

\* The handler of "except Exception as e" around the whole body.
ErrorResponse(e) ==
    [answer_text |-> ErrorPrefix \o e, source_messages |-> <<>>,
     status |-> "error", rewritten_query |-> None]

NoResponse ==
    [answer_text |-> "", source_messages |-> <<>>, status |-> "pending",
     rewritten_query |-> None]

\* A slice that keeps every message.
Truncate_All(items, max_context_messages) == items

\* items[:self.max_context_messages]
Truncate(items, max_context_messages) == Take(items, max_context_messages)

\* _create_llm_prompt: the question and the context messages it embeds.
CreateLLMPrompt(user_question, context_messages) ==
    [user_question |-> user_question, context_messages |-> context_messages]

\* A check that only asks whether the search returned a result object.
HasMessages_NotNone(search_result) == TRUE

\* "if not search_result.messages" is the negation of this.
HasMessages(search_result) == search_result.messages # <<>>

SourceMessage(message, expanded_text, relevance_score) ==
    [message_id |-> message.message_id, text |-> message.text,
     expanded_text |-> expanded_text, relevance_score |-> relevance_score]

\* Step 4 without its debug branch.
SourceMessages_Plain(debug, search_result, context_messages, max_context_messages) ==
    [i \in 1..Len(context_messages) |->
        SourceMessage(context_messages[i], None, None)]

\* Step 4 of process_query: the debug branch reads messages_with_scores, the
\* normal branch the context messages.
SourceMessages(debug, search_result, context_messages, max_context_messages) ==
    LET scored == search_result.messages_with_scores
    IN IF debug /\ scored # None /\ scored[1] # <<>>
       THEN LET items == Truncate(scored[1], max_context_messages)
            IN [i \in 1..Len(items) |->
                   SourceMessage(items[i].message, items[i].expanded_text,
                                 Some(items[i].relevance_score))]
       ELSE [i \in 1..Len(context_messages) |->
                SourceMessage(context_messages[i], None, None)]

SuccessResponse(debug, content, source_messages, search_result) ==
    [answer_text |-> content, source_messages |-> source_messages,
     status |-> "success",
     rewritten_query |-> IF debug THEN search_result.rewritten_query ELSE None]

\* What the model answers to the rewrite prompt and to the question.
RewriteContents == {<<"q", "+">>, <<" ", "q", "+", " ">>, <<>>}
AnswerContent == "<answer>"

-----------------------------------------------------------------------------
(* Initial states *)

Plain == <<"h", "i">>
BatchSizes == {1, OverlapDiv}
OverlapSizes == {2, OverlapDiv}

MakeStore(n, text, chat, date) ==
    {[telegram_id |-> i, chat_id |-> chat[i], text |-> text[i],
      telegram_date |-> date[i]] : i \in 1..n}

\* Stores of n messages with distinct dates: all with text in one chat; one
\* message with another text value; two chats; dates against the id order.
Stores(n) ==
    LET plainText == [i \in 1..n |-> Plain]
        oneChat == [i \in 1..n |-> 1]
        byId == [i \in 1..n |-> i]
    IN  {MakeStore(n, plainText, oneChat, byId)}
        \cup {MakeStore(n, [plainText EXCEPT ![k] = t], oneChat, byId) :
                  k \in 1..n, t \in TextValues}
        \cup {MakeStore(n, plainText, [oneChat EXCEPT ![k] = 2], byId) : k \in 1..n}
        \cup {MakeStore(n, plainText, oneChat, [i \in 1..n |-> n + 1 - i])}

\* Stores of n messages of one chat in id order, all with text but possibly
\* the message that the first window of size OverlapDiv shares with the next.
OverlapStores(n) ==
    {MakeStore(n, [i \in 1..n |-> IF i = OverlapDiv THEN t ELSE Plain],
               [i \in 1..n |-> 1], [i \in 1..n |-> i]) : t \in TextValues}

InitWriters(store, writers, limit, batches) ==
    /\ messages = store
    /\ run_limit = limit
    /\ sizes = batches
    /\ writeLock = NoWriter
    /\ active = writers
    /\ pc = [w \in Writers |-> "idle"]
    /\ runs = [w \in Writers |-> 0]
    /\ batch_size = [w \in Writers |-> 0]
    /\ processed_ids = [w \in Writers |-> {}]
    /\ new_messages = [w \in Writers |-> <<>>]
    /\ batch_start = [w \in Writers |-> 0]
    /\ batch_end = [w \in Writers |-> 0]
    /\ total_processed = [w \in Writers |-> 0]
    /\ ret = [w \in Writers |-> 0]
    /\ items_left = [w \in Writers |-> 0]
    /\ saved_count = [w \in Writers |-> 0]
    /\ session = [w \in Writers |-> CleanSession]
    /\ outcome = [w \in Writers |-> "none"]
    /\ flush_error = [w \in Writers |-> "none"]
    /\ requested = [w \in Writers |-> <<>>]
    /\ attempted = [w \in Writers |-> {}]
    /\ run_saved = [w \in Writers |-> {}]
    /\ skipped = [w \in Writers |-> FALSE]
    /\ last_ids = [w \in Writers |-> {}]
    /\ left_after = [w \in Writers |-> {}]
    /\ processed_count = [w \in Writers |-> 0]

InitRun(store, writers, limit, batches) ==
    /\ expansions = EmptyBag
    /\ InitWriters(store, writers, limit, batches)

NoWindow == [n |-> 0, B |-> 0, start |-> 0, out |-> <<>>, done |-> TRUE]

NoQuery == [pc |-> "none"]

NoStats == [read |-> FALSE]

NoProvider == [calls |-> 0]

\* No prompt built by any orchestrator.
NoPrompt == [w \in Writers |-> [built |-> FALSE]]

\* search_tool = None, over an empty collection.
NoIndex == [tool |-> FALSE, entries |-> {}, served |-> 0]

\* Two orchestrator processes over one store.
Init ==
    /\ \E store \in Stores(MaxMsgs) : InitRun(store, Writers, MaxConcRuns, BatchSizes)
    /\ win = NoWindow
    /\ query = NoQuery
    /\ stats = NoStats
    /\ provider = NoProvider
    /\ vindex = NoIndex
    /\ prompt = NoPrompt

\* One orchestrator process, run again and again.
InitSeq ==
    /\ \E store \in Stores(MaxMsgs) : InitRun(store, {"w1"}, MaxRuns, BatchSizes)
    /\ win = NoWindow
    /\ query = NoQuery
    /\ stats = NoStats
    /\ provider = NoProvider
    /\ vindex = NoIndex
    /\ prompt = NoPrompt

\* One orchestrator process started again and again: every start runs the
\* startup check. The stores include one without a message to expand.
StartupStores ==
    Stores(MaxMsgs) \cup {MakeStore(MaxMsgs, [i \in 1..MaxMsgs |-> Null],
                                    [i \in 1..MaxMsgs |-> 1], [i \in 1..MaxMsgs |-> i])}

InitStartup ==
    /\ \E store \in StartupStores : InitRun(store, {"w1"}, MaxStartups, {DefaultBatchSize})
    /\ win = NoWindow
    /\ query = NoQuery
    /\ stats = NoStats
    /\ provider = NoProvider
    /\ vindex = NoIndex
    /\ prompt = NoPrompt

\* Names a caller passes to create_provider (<<>>: none) and values of the
\* environment variable LLM_PROVIDER (<<>>: not set).
ProviderNames == {<<>>, <<"">>, <<"openai">>, <<"anthropic">>, <<"unknown">>, <<"OpenAI">>}
EnvValues == {<<>>, <<"">>, <<"openai">>, <<"anthropic">>, <<"unknown">>}

InitFactory ==
    /\ InitRun({}, {}, 0, {})
    /\ win = NoWindow
    /\ query = NoQuery
    /\ stats = NoStats
    /\ \E env \in EnvValues :
          provider = [calls |-> 0, env |-> env, constructed |-> <<>>, raised |-> 0]
    /\ vindex = NoIndex
    /\ prompt = NoPrompt

\* One process: the background expansion and the queries it serves.
InitIndex ==
    /\ \E store \in Stores(MaxMsgs) : InitRun(store, {"w1"}, MaxRuns, BatchSizes)
    /\ win = NoWindow
    /\ query = NoQuery
    /\ stats = NoStats
    /\ provider = NoProvider
    /\ vindex = NoIndex
    /\ prompt = NoPrompt

\* The batch loop for a number of pending messages and a batch size.
WinCounts == (1..MaxWinMsgs) \cup {105}
WinSizes == (1..MaxWinBatch) \cup {DefaultBatchSize, 60}

InitWin ==
    /\ InitRun({}, {}, 0, {})
    /\ query = NoQuery
    /\ stats = NoStats
    /\ provider = NoProvider
    /\ vindex = NoIndex
    /\ prompt = NoPrompt
    /\ \E n \in WinCounts, B \in WinSizes :
          win = [n |-> n, B |-> B, start |-> 0, out |-> <<>>, done |-> FALSE]

\* One run of one orchestrator over a store large enough for overlapping
\* batch windows.
InitOverlap ==
    /\ \E store \in OverlapStores(MaxSeqMsgs) :
          InitRun(store, {"w1"}, MaxOverlapRuns, OverlapSizes)
    /\ win = NoWindow
    /\ query = NoQuery
    /\ stats = NoStats
    /\ provider = NoProvider
    /\ vindex = NoIndex
    /\ prompt = NoPrompt

\* The Vector Index as one query sees it: the ranked candidates it returns,
\* nearest first, their identifiers distinct; some identifiers are of messages
\* the store does not hold, one is not a number.
StaleId == "9"
IndexIds == {ToString(i) : i \in 1..MaxQueryMsgs} \cup {StaleId, "x"}
Distances == {10, 50, 75, 76, 120}

RankedIds ==
    UNION {{ids \in [1..k -> IndexIds] : \A i, j \in 1..k : i # j => ids[i] # ids[j]} :
              k \in 0..MaxCands}

Ascending(k) ==
    {d \in [1..k -> Distances] : \A i, j \in 1..k : i <= j => d[i] <= d[j]}

Candidates ==
    UNION {{[i \in 1..Len(ids) |-> [message_id |-> ids[i], distance |-> d[i]]] :
               d \in Ascending(Len(ids))} : ids \in RankedIds}

\* The stores of a query: the first message has text and an Expansion row,
\* the second has a NULL text and none.
QueryStore ==
    MakeStore(MaxQueryMsgs, [i \in 1..MaxQueryMsgs |-> IF i = 2 THEN Null ELSE Plain],
              [i \in 1..MaxQueryMsgs |-> 1], [i \in 1..MaxQueryMsgs |-> i])

QueryExpansions ==
    SetToBag({[message_id |-> "1", expanded_text |-> OutText("w1", 1),
               model_used |-> ModelOf("w1")]})

MaxContextValues == {1, DefaultMaxContext}

NewQuery(debug, max_context_messages, index) ==
    [pc |-> "rewrite",
     user_question |-> <<"q">>,
     debug |-> debug,
     max_context_messages |-> max_context_messages,
     index |-> index,
     rewritten_query |-> <<>>,
     rewrite_raised |-> FALSE,
     index_raised |-> FALSE,
     message_ids |-> None,
     db_messages |-> <<>>,
     search_result |-> EmptyOutput,
     context_messages |-> <<>>,
     llm_prompt |-> CreateLLMPrompt(<<>>, <<>>),
     vector_queries |-> <<>>,
     completion_calls |-> 0,
     answer_calls |-> 0,
     failed_at |-> "none",
     response |-> NoResponse]

\* One process_query call over a store, an Expansion Store and an index.
InitQuery ==
    /\ InitWriters(QueryStore, {}, 0, {})
    /\ expansions = QueryExpansions
    /\ win = NoWindow
    /\ stats = NoStats
    /\ provider = NoProvider
    /\ vindex = PopulatedIndex(messages, expansions)
    /\ prompt = NoPrompt
    /\ \E debug \in BOOLEAN, max \in MaxContextValues, index \in Candidates :
          query = NewQuery(debug, max, index)

\* A query over a Message Store in which two chats hold a message with the
\* same telegram_id: the column is not unique in the schema.
DuplicateRowStore ==
    QueryStore \cup {[telegram_id |-> 1, chat_id |-> 2, text |-> <<"y", "o">>,
                      telegram_date |-> MaxQueryMsgs + 1]}

InitHydrate ==
    /\ InitWriters(DuplicateRowStore, {}, 0, {})
    /\ expansions = QueryExpansions
    /\ win = NoWindow
    /\ stats = NoStats
    /\ provider = NoProvider
    /\ vindex = PopulatedIndex(messages, expansions)
    /\ prompt = NoPrompt
    /\ \E debug \in BOOLEAN, max \in MaxContextValues, index \in Candidates :
          query = NewQuery(debug, max, index)

-----------------------------------------------------------------------------
(* Actions *)

\* process_new_messages up to the batch loop.
BeginRun(w, B) ==
    /\ pc[w] \in {"idle", "done"}
    /\ runs[w] < run_limit
    /\ LET pids == ProcessedIds(expansions)
           pending == NewMessages(pids)
       IN /\ processed_ids' = [processed_ids EXCEPT ![w] = pids]
          /\ new_messages' = [new_messages EXCEPT ![w] = pending]
          /\ pc' = [pc EXCEPT ![w] = IF pending = <<>> THEN "done" ELSE "loop"]
          /\ left_after' = [left_after EXCEPT ![w] =
                               IF pending = <<>> THEN Uncovered(expansions) ELSE @]
    /\ ret' = [ret EXCEPT ![w] = 0]
    /\ runs' = [runs EXCEPT ![w] = @ + 1]
    /\ batch_size' = [batch_size EXCEPT ![w] = B]
    /\ batch_start' = [batch_start EXCEPT ![w] = 0]
    /\ batch_end' = [batch_end EXCEPT ![w] = 0]
    /\ total_processed' = [total_processed EXCEPT ![w] = 0]
    /\ processed_count' = [processed_count EXCEPT ![w] = 0]
    /\ items_left' = [items_left EXCEPT ![w] = 0]
    /\ saved_count' = [saved_count EXCEPT ![w] = 0]
    /\ session' = [session EXCEPT ![w] = CleanSession]
    /\ outcome' = [outcome EXCEPT ![w] = "none"]
    /\ flush_error' = [flush_error EXCEPT ![w] = "none"]
    /\ requested' = [requested EXCEPT ![w] = <<>>]
    /\ attempted' = [attempted EXCEPT ![w] = {}]
    /\ run_saved' = [run_saved EXCEPT ![w] = {}]
    /\ skipped' = [skipped EXCEPT ![w] = FALSE]
    /\ last_ids' = [last_ids EXCEPT ![w] = {}]
    /\ UNCHANGED <<messages, expansions, writeLock, active, run_limit, sizes>>

\* A run started by a caller other than the startup check.
StartRun(w, B) == BeginRun(w, B) /\ UNCHANGED <<win, query, svcVars>>

\* The batch loop after expand_batch_and_save returned count (raised = TRUE:
\* it raised instead): add to the total, then stop after the last window or
\* move on with the overlap. Returning closes both sessions. store is the
\* Expansion Store after the batch.
AfterBatch(w, end, raised, count, sess, how, store) ==
    LET n == Len(new_messages[w])
        total == IF raised THEN total_processed[w] ELSE total_processed[w] + count
    IN /\ total_processed' = [total_processed EXCEPT ![w] = total]
       /\ processed_count' = [processed_count EXCEPT ![w] = IF raised THEN @ ELSE count]
       /\ batch_end' = [batch_end EXCEPT ![w] = end]
       /\ outcome' = [outcome EXCEPT ![w] = how]
       /\ items_left' = [items_left EXCEPT ![w] = 0]
       /\ IF LoopEnds(end, n, how)
          THEN /\ pc' = [pc EXCEPT ![w] = "done"]
               /\ ret' = [ret EXCEPT ![w] = total]
               /\ session' = [session EXCEPT ![w] = CleanSession]
               /\ left_after' = [left_after EXCEPT ![w] = Uncovered(store)]
               /\ UNCHANGED batch_start
          ELSE /\ pc' = [pc EXCEPT ![w] = "loop"]
               /\ batch_start' = [batch_start EXCEPT ![w] =
                                     NextStart(end, Overlap(batch_size[w]))]
               /\ session' = [session EXCEPT ![w] = sess]
               /\ UNCHANGED <<ret, left_after>>

\* One pass of the while loop up to the save loop: the window, then
\* expand_batch_and_save up to the parsed response.
ExpandBatch(w) ==
    /\ pc[w] = "loop"
    /\ LET end == BatchEnd(batch_start[w], batch_size[w], Len(new_messages[w]))
           current_batch == SubSeq(new_messages[w], batch_start[w] + 1, end)
           valid_messages == ValidMessages(current_batch)
       IN /\ attempted' = [attempted EXCEPT ![w] = @ \cup SeqToSet(BatchIds(current_batch))]
          /\ run_saved' = [run_saved EXCEPT ![w] =
                              @ \cup (last_ids[w] \cap SeqToSet(requested[w]))]
          /\ skipped' = [skipped EXCEPT ![w] = FALSE]
          /\ last_ids' = [last_ids EXCEPT ![w] = {}]
          /\ flush_error' = [flush_error EXCEPT ![w] = "none"]
          /\ saved_count' = [saved_count EXCEPT ![w] = 0]
          /\ IF valid_messages = <<>>
             THEN /\ requested' = [requested EXCEPT ![w] = <<>>]
                  /\ prompt' = [prompt EXCEPT ![w] = [built |-> FALSE]]
                  /\ AfterBatch(w, end, FALSE, 0, session[w], "no_text", expansions)
             ELSE \E how \in CallOutcomes :
                    /\ requested' = [requested EXCEPT ![w] =
                                        IF how = "ctx_raise" THEN <<>>
                                        ELSE BatchIds(valid_messages)]
                    /\ prompt' = [prompt EXCEPT ![w] =
                                     IF how = "ctx_raise" THEN [built |-> FALSE]
                                     ELSE ExpansionPrompt(current_batch)]
                    /\ IF how = "parsed"
                       THEN /\ \E len \in 0..MaxItems :
                                  items_left' = [items_left EXCEPT ![w] = len]
                            /\ pc' = [pc EXCEPT ![w] = "save"]
                            /\ batch_end' = [batch_end EXCEPT ![w] = end]
                            /\ outcome' = [outcome EXCEPT ![w] = "none"]
                            /\ UNCHANGED <<total_processed, processed_count, ret,
                                           session, batch_start, left_after>>
                       ELSE AfterBatch(w, end, how = "ctx_raise", FailedBatchCount(how),
                                       session[w], how, expansions)
    /\ UNCHANGED <<messages, expansions, writeLock, active, run_limit, sizes, runs,
                   batch_size,
                   processed_ids, new_messages, win, query, stats, provider, vindex>>

\* One iteration of "for expansion_data in expansions": what it does to the
\* session, whether it counts as saved, and the flush error it met.
ItemResult(w, item, sess, store) ==
    LET skip == [session |-> sess, saved |-> 0, error |-> "none", existing |-> FALSE]
        error == FlushError(sess, store)
        flushed == Flushed(sess)
    IN  IF item.message_id = MissingId THEN skip
        ELSE IF sess.failed THEN skip
        ELSE IF error # "none"
             THEN [skip EXCEPT !.session = FailedSession, !.error = error]
        ELSE IF Existing(PyStr(item.message_id), flushed, store)
             THEN [skip EXCEPT !.session = flushed, !.existing = TRUE]
        ELSE IF item.expanded_text = MissingText
             THEN [skip EXCEPT !.session = flushed]
        ELSE [skip EXCEPT !.session = [flushed EXCEPT !.pending = <<NewRow(w, item)>>],
                          !.saved = 1]

\* The write lock after a session step: held while the transaction has rows.
LockAfter(w, sess) ==
    IF sess.flushed # {} THEN w
    ELSE IF writeLock = w THEN NoWriter
    ELSE writeLock

SaveItem(w) ==
    /\ pc[w] = "save"
    /\ items_left[w] > 0
    /\ \E item \in Items :
          LET touches == item.message_id # MissingId /\ ~session[w].failed
              res == ItemResult(w, item, session[w], expansions)
          IN /\ touches => CanWrite(w, session[w])
             /\ session' = [session EXCEPT ![w] = res.session]
             /\ saved_count' = [saved_count EXCEPT ![w] = @ + res.saved]
             /\ flush_error' = [flush_error EXCEPT ![w] =
                                   IF res.error # "none" THEN res.error ELSE @]
             /\ writeLock' = LockAfter(w, res.session)
             /\ skipped' = [skipped EXCEPT ![w] = res.existing]
    /\ items_left' = [items_left EXCEPT ![w] = @ - 1]
    /\ UNCHANGED <<messages, expansions, active, run_limit, sizes, pc, runs, batch_size,
                   processed_ids, new_messages, batch_start, batch_end,
                   total_processed, ret, outcome, requested, attempted,
                   run_saved, last_ids, left_after, processed_count, win, query, svcVars>>

\* self.expansion_session.commit(), the return, and the loop's advance.
CommitBatch(w) ==
    /\ pc[w] = "save"
    /\ items_left[w] = 0
    /\ LET sess == session[w]
           error == FlushError(sess, expansions)
           rows == sess.flushed \cup SeqToSet(sess.pending)
       IN IF sess.failed
          THEN /\ AfterBatch(w, batch_end[w], FALSE, FailedBatchCount("session_error"),
                             sess, "session_error", expansions)
               /\ UNCHANGED <<expansions, writeLock, flush_error, last_ids>>
          ELSE /\ CanWrite(w, sess)
               /\ IF error # "none"
                  THEN /\ AfterBatch(w, batch_end[w], FALSE,
                                     FailedBatchCount("commit_error"),
                                     CleanSession, "commit_error", expansions)
                       /\ flush_error' = [flush_error EXCEPT ![w] = error]
                       /\ writeLock' = LockAfter(w, CleanSession)
                       /\ UNCHANGED <<expansions, last_ids>>
                  ELSE /\ expansions' = CommitRows(expansions, rows)
                       /\ AfterBatch(w, batch_end[w], FALSE, saved_count[w],
                                     CleanSession, "committed",
                                     CommitRows(expansions, rows))
                       /\ writeLock' = LockAfter(w, CleanSession)
                       /\ last_ids' = [last_ids EXCEPT ![w] = RowIds(rows)]
                       /\ UNCHANGED flush_error
    /\ UNCHANGED <<messages, active, run_limit, sizes, runs, batch_size, processed_ids,
                   new_messages, saved_count, requested, attempted, run_saved, win, query, svcVars>>
    /\ skipped' = [skipped EXCEPT ![w] = FALSE]

\* A close that writes the flushed rows of the open transaction.
CancelRows_Autocommit(sess, store) == store (+) SetToBag(sess.flushed)

\* expansion_session.close() in the finally block, or the process exiting,
\* with a transaction open: the transaction is rolled back.
CancelRows(sess, store) == store

\* task.cancel() and sys.exit(0) of handle_shutdown during a run: the
\* exception is no Exception, so it passes the handlers of the save loop, of
\* expand_batch_and_save and of the batch loop, and the finally block closes
\* the sessions.
Cancel(w) ==
    /\ pc[w] \in {"loop", "save"}
    /\ pc' = [pc EXCEPT ![w] = "cancelled"]
    /\ expansions' = CancelRows(session[w], expansions)
    /\ session' = [session EXCEPT ![w] = CleanSession]
    /\ writeLock' = IF writeLock = w THEN NoWriter ELSE writeLock
    /\ UNCHANGED <<messages, active, run_limit, sizes, runs, batch_size,
                   processed_ids, new_messages, batch_start, batch_end,
                   total_processed, ret, items_left, saved_count, outcome,
                   flush_error, requested, attempted, run_saved, skipped,
                   last_ids, left_after, processed_count, win, query, svcVars>>

\* startup_expansion_check: the statistics, then process_new_messages with
\* batch_size=50 when they report pending messages.
StartupCheck(w) ==
    LET s == ExpansionStats(messages, expansions)
    IN /\ pc[w] \in {"idle", "done"}
       /\ stats' = s
       /\ IF ShouldProcess(s)
          THEN BeginRun(w, DefaultBatchSize)
          ELSE UNCHANGED runVars
       /\ UNCHANGED <<win, query, provider, vindex, prompt>>

\* A query served: process_query calls get_search_tool, which populates the
\* index on first use. populate_search_index has no await: the background
\* task of the process does not run inside it.
ServeQuery ==
    /\ vindex.served < MaxServed
    /\ vindex' = [tool |-> TRUE,
                  entries |-> SearchToolEntries(vindex, messages, expansions),
                  served |-> vindex.served + 1]
    /\ UNCHANGED <<runVars, win, query, stats, provider, prompt>>

\* One call of LLMFactory.create_provider(provider_name).
CreateProviderCall ==
    /\ "env" \in DOMAIN provider
    /\ provider.calls < MaxCalls
    /\ \E provider_name \in ProviderNames :
          LET result == CreateProvider(provider_name, provider.env)
          IN provider' =
                 [calls |-> provider.calls + 1,
                  env |-> provider.env,
                  constructed |-> provider.constructed \o result.instance,
                  raised |-> provider.raised + Len(result.error),
                  last |-> result]
    /\ UNCHANGED <<runVars, win, query, stats, vindex, prompt>>

\* The batch loop alone, over n pending messages with batch size B: each pass
\* records the window [batch_start, batch_end).
WinStep ==
    /\ ~win.done
    /\ LET end == BatchEnd(win.start, win.B, win.n)
       IN win' = [win EXCEPT !.out = Append(@, <<win.start, end>>),
                             !.done = LastBatch(end, win.n),
                             !.start = IF LastBatch(end, win.n) THEN @
                                       ELSE NextStart(end, Overlap(win.B))]
    /\ UNCHANGED <<runVars, query, svcVars>>

Next ==
    \/ \E w \in active, B \in sizes : StartRun(w, B)
    \/ \E w \in active : ExpandBatch(w)
    \/ \E w \in active : SaveItem(w)
    \/ \E w \in active : CommitBatch(w)

Spec == Init /\ [][Next]_vars

SpecSeq == InitSeq /\ [][Next]_vars

SpecOverlap == InitOverlap /\ [][Next]_vars

SpecWin == InitWin /\ [][WinStep]_vars

\* The batch loop is straight-line code between two passes: a pass that can
\* be made is made.
SpecWinFair == InitWin /\ [][WinStep]_vars /\ WF_vars(WinStep)

\* One orchestrator process whose run can be cancelled.
NextCancel ==
    \/ \E w \in active, B \in sizes : StartRun(w, B)
    \/ \E w \in active : ExpandBatch(w)
    \/ \E w \in active : SaveItem(w)
    \/ \E w \in active : CommitBatch(w)
    \/ \E w \in active : Cancel(w)

SpecCancel == InitSeq /\ [][NextCancel]_vars

\* The runs the startup check starts.
NextStartup ==
    \/ \E w \in active : StartupCheck(w)
    \/ \E w \in active : ExpandBatch(w)
    \/ \E w \in active : SaveItem(w)
    \/ \E w \in active : CommitBatch(w)

SpecStartup == InitStartup /\ [][NextStartup]_vars

SpecFactory == InitFactory /\ [][CreateProviderCall]_vars

\* Queries served while the background expansion runs.
NextIndex ==
    \/ \E w \in active, B \in sizes : StartRun(w, B)
    \/ \E w \in active : ExpandBatch(w)
    \/ \E w \in active : SaveItem(w)
    \/ \E w \in active : CommitBatch(w)
    \/ ServeQuery

SpecIndex == InitIndex /\ [][NextIndex]_vars

-----------------------------------------------------------------------------
(* Actions of a query *)

\* process_query returning: the response, and the step that raised, if any.
Returned(q, response, step) ==
    [q EXCEPT !.pc = "done", !.response = response, !.failed_at = step]

\* A step raising inside the try block of process_query.
Failed(q, step) == Returned(q, ErrorResponse(ExceptionMessage(step)), step)

\* get_search_tool and _rewrite_query. The tool's construction can raise
\* into process_query; the rewrite cannot: creating the provider or the model
\* call raising leaves the original query.
RewriteStep ==
    /\ query.pc = "rewrite"
    /\ \E how \in {"tool_error", "no_provider", "llm_raise", "ok"}, content \in RewriteContents :
          query' =
              IF how = "tool_error"
              THEN Failed(query, "search_tool")
              ELSE [query EXCEPT
                       !.pc = "vector",
                       !.rewrite_raised = how # "ok",
                       !.completion_calls = IF how = "no_provider" THEN @ ELSE @ + 1,
                       !.rewritten_query =
                           RewriteQuery(query.user_question, how # "ok", content)]
    /\ UNCHANGED <<runVars, win, svcVars>>

\* collection.query with the rewritten query: it raises, returns nothing, or
\* returns the candidates.
VectorQueryStep ==
    /\ query.pc = "vector"
    /\ \E raised \in BOOLEAN :
          query' =
              [query EXCEPT
                  !.vector_queries = Append(@, query.rewritten_query),
                  !.index_raised = raised,
                  !.pc = IF raised \/ query.index = <<>> THEN "agent" ELSE "hydrate",
                  !.search_result = IF raised THEN OnIndexError ELSE EmptyOutput]
    /\ vindex' = QueryCollection(vindex, query.rewritten_query)
    /\ UNCHANGED <<runVars, win, stats, provider, prompt>>

\* The threshold filter, the batched lookup in the order the store returns
\* the rows, the debug augmentation and the return of the search. The lookup
\* and the Expansion Store query can raise.
HydrateStep ==
    /\ query.pc = "hydrate"
    /\ \E raised \in BOOLEAN,
          db_messages \in RowOrders(SelectByIds(IntMessageIds(MessageIds(query.index)))) :
          query' =
              IF raised
              THEN [query EXCEPT !.pc = "agent", !.search_result = RaisedOutput]
              ELSE [query EXCEPT
                       !.pc = "agent",
                       !.message_ids = Some(MessageIds(query.index)),
                       !.db_messages = db_messages,
                       !.search_result =
                           SearchOutput(query.debug, query.rewritten_query,
                                        query.index, db_messages)]
    /\ UNCHANGED <<runVars, win, svcVars>>

\* process_query after the search: the no-results return, or the truncation
\* and the prompt.
PrepareStep ==
    /\ query.pc = "agent"
    /\ \E raised \in BOOLEAN :
          LET result == query.search_result
              context_messages == Truncate(result.messages, query.max_context_messages)
          IN query' =
                 IF result.raised
                 THEN Failed(query, "search")
                 ELSE IF ~HasMessages(result)
                 THEN Returned(query, NoResultsResponse, "none")
                 ELSE IF raised
                 THEN Failed(query, "prompt")
                 ELSE [query EXCEPT
                          !.pc = "generate",
                          !.context_messages = context_messages,
                          !.llm_prompt =
                              CreateLLMPrompt(query.user_question, context_messages)]
    /\ UNCHANGED <<runVars, win, svcVars>>

\* The completion call of step 3.
GenerateStep ==
    /\ query.pc = "generate"
    /\ \E raised \in BOOLEAN :
          LET called == [query EXCEPT !.completion_calls = @ + 1,
                                      !.answer_calls = @ + 1]
          IN query' =
                 IF raised
                 THEN Failed(called, "completion")
                 ELSE [called EXCEPT !.pc = "shape"]
    /\ UNCHANGED <<runVars, win, svcVars>>

\* Step 4 and the return of the success response.
ShapeStep ==
    /\ query.pc = "shape"
    /\ \E raised \in BOOLEAN :
          LET source_messages ==
                  SourceMessages(query.debug, query.search_result,
                                 query.context_messages, query.max_context_messages)
          IN query' =
                 IF raised
                 THEN Failed(query, "shaping")
                 ELSE Returned(query,
                               SuccessResponse(query.debug, AnswerContent,
                                               source_messages, query.search_result),
                               "none")
    /\ UNCHANGED <<runVars, win, svcVars>>

QueryNext ==
    \/ RewriteStep
    \/ VectorQueryStep
    \/ HydrateStep
    \/ PrepareStep
    \/ GenerateStep
    \/ ShapeStep

SpecQuery == InitQuery /\ [][QueryNext]_vars

SpecHydrate == InitHydrate /\ [][QueryNext]_vars

-----------------------------------------------------------------------------
(* Properties *)

RowsOf(message_id) == {r \in StoreRows(expansions) : r.message_id = message_id}

RowCount(message_id) ==
    BagCardinality([r \in RowsOf(message_id) |-> CopiesIn(r, expansions)])

EligibleIds == {MessageId(m) : m \in {x \in messages : Eligible(x)}}

PendingIds(w) == SeqToSet(BatchIds(new_messages[w]))

\* The step is a step of ExpandBatch(w) that ended the batch.
BatchEnded(w) ==
    /\ pc[w] = "loop"
    /\ pc'[w] = "done" \/ batch_start'[w] # batch_start[w]

\* C1: for every message identifier the Expansion Store holds at most one
\* row, in every reachable state of two orchestrators running concurrently
\* over the same pending messages.
C1_AtMostOneExpansion ==
    \A r \in StoreRows(expansions) : RowCount(r.message_id) = 1

\* Both orchestrators tried to save the same identifier: one committed it and
\* the other's insert was refused.
C1_Witness ==
    \E w \in Writers, o \in Writers :
        /\ w # o
        /\ outcome[w] = "committed" /\ last_ids[w] # {}
        /\ flush_error[o] = "dup_key"
        /\ last_ids[w] \cap SeqToSet(requested[o]) # {}

\* C2: when two concurrent writers try to save an expansion for the same
\* identifier, the second writer skips the existing row: its batch does not
\* end in an error because the row exists.
C2_SecondWriterSkips ==
    \A w \in Writers :
        ~(outcome[w] \in {"commit_error", "session_error"} /\ flush_error[w] = "dup_key")

\* Rows the step adds to the session of w.
NewlyAdded(w) ==
    SeqToSet(session'[w].pending) \ (SeqToSet(session[w].pending) \cup session[w].flushed)

\* C3: write-once. A committed row is never changed or joined by another row
\* of its identifier, and an iteration of the save loop over an identifier
\* that has a committed row adds nothing and does not count as saved.
C3_WriteOnce ==
    [][/\ \A r \in StoreRows(expansions) :
            /\ r \in StoreRows(expansions')
            /\ \A q \in StoreRows(expansions') : q.message_id = r.message_id => q = r
       /\ \A w \in Writers :
            (pc[w] = "save" /\ pc'[w] = "save") =>
                /\ \A row \in NewlyAdded(w) :
                        row.message_id \notin ProcessedIds(expansions)
                /\ saved_count'[w] = saved_count[w] + Cardinality(NewlyAdded(w))]_vars

\* An orchestrator met, in its save loop, an identifier the other one had
\* committed, and skipped it.
C3_Witness ==
    \E w \in Writers, o \in Writers :
        /\ w # o
        /\ pc[w] = "save" /\ skipped[w]
        /\ saved_count[w] = 0 /\ session[w] = CleanSession
        /\ StoreRows(expansions) # {}
        /\ \A r \in StoreRows(expansions) :
              r.model_used = ModelOf(o) /\ r.message_id \notin processed_ids[w]

Covered == \A id \in EligibleIds : RowCount(id) = 1

\* C4: at a fixed point of the orchestrator every message with non-empty
\* text has exactly one row. The fixed point is a run that returned 0 and in
\* which no batch had a message to send to the model: nothing failed in it,
\* and every later run over the same messages does the same.
C4_FixedPointCovers ==
    \A w \in active :
        (pc[w] = "done" /\ ret[w] = 0 /\ ValidMessages(new_messages[w]) = <<>>)
            => Covered

\* C5 as stated: a second run in a row saves no row and returns 0.
C5_SecondRunZero ==
    \A w \in active :
        (runs[w] >= 2 /\ pc[w] = "done") =>
            (ret[w] = 0 /\ ProcessedIds(expansions) = processed_ids[w])

\* C5, amended: the second of two runs in a row submits exactly the messages
\* the first left without a row; when the first left none, it attempts no
\* batch, saves no row and returns 0.
C5_SecondRunOnlyRemaining ==
    [][\A w \in active :
          (runs[w] >= 1 /\ runs'[w] = runs[w] + 1) =>
              /\ SeqToSet(BatchIds(new_messages'[w])) = left_after[w]
              /\ left_after[w] = {} =>
                    /\ pc'[w] = "done" /\ ret'[w] = 0
                    /\ attempted'[w] = {}
                    /\ expansions' = expansions]_vars

\* The first run saved every pending message and the second returned 0.
C5_Witness ==
    \E w \in active :
        /\ runs[w] = 2 /\ pc[w] = "done" /\ ret[w] = 0
        /\ attempted[w] = {}
        /\ StoreRows(expansions) # {}
        /\ left_after[w] = {}

\* C6: every row saved by a batch has an identifier of the batch's list of
\* identifiers requested for expansion.
C6_OnlyRequestedSaved ==
    \A w \in active : last_ids[w] \subseteq SeqToSet(requested[w])

C8_EveryWindowAttempted ==
    \A w \in active : pc[w] = "done" => attempted[w] = PendingIds(w)

\* A batch raised or saved nothing and the loop is at its next window.
C8_Witness ==
    \E w \in active :
        /\ pc[w] = "loop" /\ batch_start[w] > 0
        /\ outcome[w] \in {"ctx_raise", "llm_raise", "bad_json", "commit_error",
                            "session_error"}

\* C9: a message whose expansion was requested and saved in an earlier batch
\* of the run is not requested for expansion in a later batch of the run.
C9_OverlapNotRequested ==
    \A w \in active : SeqToSet(requested[w]) \cap run_saved[w] = {}

WindowAt(i) == win.out[i]

\* C11: the batches of a run hold only messages that had no row when the
\* run read the Expansion Store at its start.
C11_OnlyPendingSubmitted ==
    \A w \in active : attempted[w] \cap processed_ids[w] = {}

\* A second run, started with rows already saved, submitted the rest.
C11_Witness ==
    \E w \in active :
        /\ runs[w] = 2 /\ processed_ids[w] # {}
        /\ attempted[w] # {}
        /\ processed_ids[w] \cap EligibleIds # {}

\* C10: the windows start at 0, have size B but for the last, each next one
\* starts min(10, B div 5) before the end of the previous, the last ends at
\* the number of pending messages; 105 messages and B = 50 give [0,50),
\* [40,90), [80,105).
C10_Windows ==
    LET k == Len(win.out)
        overlap == IF 10 <= win.B \div 5 THEN 10 ELSE win.B \div 5
    IN /\ k >= 1 => WindowAt(1)[1] = 0
       /\ \A i \in 1..k :
            /\ WindowAt(i)[2] - WindowAt(i)[1] <= win.B
            /\ WindowAt(i)[1] < WindowAt(i)[2]
            /\ i < k => /\ WindowAt(i)[2] - WindowAt(i)[1] = win.B
                        /\ WindowAt(i + 1)[1] = WindowAt(i)[2] - overlap
       /\ win.done /\ win.n > 0 => k >= 1 /\ WindowAt(k)[2] = win.n
       /\ (win.done /\ win.n = 105 /\ win.B = 50) =>
              win.out = <<<<0, 50>>, <<40, 90>>, <<80, 105>>>>

\* The loop finished for 105 pending messages and batch size 50.
C10_Witness == win.done /\ win.n = 105 /\ win.B = 50 /\ Len(win.out) = 3

-----------------------------------------------------------------------------
(* Properties of a query *)

QueryDone == query.pc = "done"

\* The search returned to process_query, and returned no message.
SearchYieldedNone ==
    /\ QueryDone
    /\ query.failed_at \notin {"search_tool", "search"}
    /\ query.search_result.messages = <<>>

\* C12 as stated: when the search yields no message the response is the
\* no_results response and no completion call was made for the query.
C12_NoResultsNoCompletion ==
    SearchYieldedNone =>
        /\ query.response = NoResultsResponse
        /\ query.completion_calls = 0

\* C12, amended: when the search yields no message the response is the
\* no_results response (status no_results, no sources, the fixed text) and no
\* answer-generation call was made; the only completion call of the query is
\* the one of the query rewrite.
C12_NoResultsNoAnswerCall ==
    SearchYieldedNone =>
        /\ query.response = NoResultsResponse
        /\ query.response.status = "no_results"
        /\ query.response.source_messages = <<>>
        /\ query.response.answer_text = NoResultsText
        /\ query.answer_calls = 0
        /\ query.completion_calls <= 1
        /\ query.completion_calls = 1 => Len(query.vector_queries) = 1

\* The index returned candidates, every one above the threshold, after a
\* rewrite call.
C12_Witness ==
    /\ SearchYieldedNone
    /\ query.index # <<>> /\ ~query.index_raised
    /\ Retained(query.index) = <<>>
    /\ query.completion_calls = 1
    /\ query.response.status = "no_results"

QuerySteps == {"search_tool", "search", "prompt", "completion", "shaping"}

\* C13: process_query always returns a response whose status is success,
\* no_results or error; when a step raised (the search tool, the search with
\* its hydration, the prompt, the completion, the shaping) the response has
\* status error, no sources and the exception message in its answer text, and
\* a response is an error response only then.
C13_AlwaysStructuredResponse ==
    QueryDone =>
        /\ query.response.status \in {"success", "no_results", "error"}
        /\ query.failed_at \in QuerySteps =>
              /\ query.response.status = "error"
              /\ query.response.source_messages = <<>>
              /\ query.response.answer_text =
                     ErrorPrefix \o ExceptionMessage(query.failed_at)
        /\ query.response.status = "error" => query.failed_at \in QuerySteps

\* The completion call raised after a search that found messages.
C13_Witness ==
    /\ QueryDone
    /\ query.failed_at = "completion"
    /\ query.search_result.messages # <<>>
    /\ query.response.status = "error"

\* The distances of the candidates at the given positions of the ranked list.
DistancesOf(candidates) == [i \in 1..Len(candidates) |-> candidates[i].distance]

\* The search filtered the candidates of the index and returned what it
\* built from them.
SearchHydrated == query.pc # "none" /\ query.message_ids # None

\* C14: the identifiers kept by the filter are, in rank order, exactly those
\* of the candidates whose distance is not greater than 0.75 (a distance of
\* exactly 0.75 is kept); for distances [0.1, 0.5, 0.76, 1.2] exactly the
\* first two candidates are kept.
C14_ThresholdFilter ==
    SearchHydrated =>
      LET cands == query.index
          kept == query.message_ids[1]
          near == {i \in 1..Len(cands) : cands[i].distance <= 75}
      IN
        /\ Len(kept) = Cardinality(near)
        /\ \A i \in 1..Len(cands) :
              (i \in near) <=> (\E k \in 1..Len(kept) : kept[k] = cands[i].message_id)
        /\ \A k, l \in 1..Len(kept) :
              k < l => \E i, j \in 1..Len(cands) :
                          /\ i < j
                          /\ cands[i].message_id = kept[k]
                          /\ cands[j].message_id = kept[l]
        /\ DistancesOf(cands) = <<10, 50, 76, 120>> =>
              kept = <<cands[1].message_id, cands[2].message_id>>
        /\ \A i \in 1..Len(query.search_result.messages) :
              \E k \in 1..Len(kept) :
                  query.search_result.messages[i].message_id = kept[k]

\* The search ran over candidates at distances 0.1, 0.5, 0.76 and 1.2 and
\* returned the first two.
C14_Witness ==
    /\ DistancesOf(query.index) = <<10, 50, 76, 120>>
    /\ SearchHydrated
    /\ Len(query.search_result.messages) = 2
    /\ query.search_result.messages[1].message_id = query.index[1].message_id
    /\ query.search_result.messages[2].message_id = query.index[2].message_id

IdsOf(items) == [i \in 1..Len(items) |-> items[i].message_id]

InStore(message_id) == \E m \in messages : MessageId(m) = message_id

\* C15: the messages the search returns are the identifiers that passed the
\* threshold, in rank order, without those the Message Store does not hold,
\* whatever the order of the rows the store returned; an identifier the store
\* does not hold raises nothing and total_found counts the messages returned.
C15_RankOrderKept ==
    SearchHydrated =>
        /\ IdsOf(query.search_result.messages) = SelectSeq(query.message_ids[1], InStore)
        /\ ~query.search_result.raised
        /\ query.search_result.total_found = Len(query.search_result.messages)

\* The store returned the rows against the rank order, and identifiers it
\* does not hold were ranked among the survivors.
C15_Witness ==
    /\ SearchHydrated
    /\ Len(query.db_messages) = 2
    /\ IdsOf(query.search_result.messages) = <<"1", "2">>
    /\ query.db_messages[1].telegram_id = 2
    /\ query.message_ids[1][1] = StaleId
    /\ \E k \in 1..Len(query.message_ids[1]) : query.message_ids[1][k] = "x"

QuerySucceeded == QueryDone /\ query.response.status = "success"

\* The source messages process_query returns for the same question, rewritten
\* query, index and stores with the given debug flag, when the store returns
\* the rows in the given order.
SourcesWith(debug, db_messages) ==
    LET result == SearchOutput(debug, query.rewritten_query, query.index, db_messages)
    IN SourceMessages(debug, result,
                      Truncate(result.messages, query.max_context_messages),
                      query.max_context_messages)

FetchOrders == RowOrders(SelectByIds(IntMessageIds(MessageIds(query.index))))

\* The candidate of the index with this identifier.
CandidateOf(message_id) ==
    query.index[CHOOSE i \in 1..Len(query.index) : query.index[i].message_id = message_id]

\* C16 as stated: debug parity, and in debug mode every source message has an
\* expanded text and a relevance score.
C16_DebugPopulatesEach ==
    QuerySucceeded =>
        /\ \A order \in FetchOrders :
              IdsOf(query.response.source_messages)
                  = IdsOf(SourcesWith(~query.debug, order))
        /\ query.debug =>
              \A i \in 1..Len(query.response.source_messages) :
                  /\ query.response.source_messages[i].expanded_text # None
                  /\ query.response.source_messages[i].relevance_score # None

\* C16, amended: with debug on and with debug off the response has the same
\* source identifiers in the same order; with debug on every source message
\* has its relevance score, 1 - distance, and the expanded text of its
\* Expansion row, or none when the message has no Expansion row; with debug
\* off it has neither.
C16_DebugParity ==
    QuerySucceeded =>
        /\ \A order \in FetchOrders :
              IdsOf(query.response.source_messages)
                  = IdsOf(SourcesWith(~query.debug, order))
        /\ \A i \in 1..Len(query.response.source_messages) :
              LET source == query.response.source_messages[i]
              IN IF query.debug
                 THEN /\ source.relevance_score
                             = Some(100 - CandidateOf(source.message_id).distance)
                      /\ source.expanded_text = ExpandedText(source.message_id)
                      /\ source.expanded_text # None
                             <=> source.message_id \in ProcessedIds(expansions)
                 ELSE source.relevance_score = None /\ source.expanded_text = None

\* A debug response with two sources, one with an expanded text and one of a
\* message that has no Expansion row.
C16_Witness ==
    /\ QuerySucceeded /\ query.debug
    /\ Len(query.response.source_messages) = 2
    /\ \E i, j \in 1..2 :
          /\ query.response.source_messages[i].expanded_text # None
          /\ query.response.source_messages[j].expanded_text = None
          /\ query.response.source_messages[j].relevance_score # None

\* The rewrite raised (no provider, or the model call failed) and the search
\* went on.
RewriteFailed == query.pc # "none" /\ query.rewrite_raised

\* C17: when the rewrite fails the search continues with the original query
\* unmodified and performs the vector query with exactly that text; the
\* finished query is an error only when another step raised, and has no
\* results only when the vector query it performed yielded no message.
C17_RewriteFallsBack ==
    RewriteFailed =>
        /\ query.rewritten_query = query.user_question
        /\ query.pc # "vector" => query.vector_queries = <<query.user_question>>
        /\ QueryDone =>
              /\ query.failed_at # "search_tool"
              /\ query.response.status = "error" => query.failed_at \in QuerySteps
              /\ query.response.status = "no_results" =>
                    \/ query.index_raised
                    \/ Hydrate(MessageIds(query.index), query.db_messages) = <<>>
              /\ (query.failed_at = "none" /\ ~query.index_raised
                      /\ Hydrate(MessageIds(query.index), query.db_messages) # <<>>)
                    => query.response.status = "success"

\* The model call of the rewrite raised and the query succeeded on the original
\* text.
C17_Witness ==
    /\ RewriteFailed /\ QueryDone
    /\ query.completion_calls = 2
    /\ query.vector_queries = <<query.user_question>>
    /\ query.response.status = "success"

\* collection.query raised.
IndexQueryRaised == query.pc # "none" /\ query.index_raised

\* C18: when the vector-index query raises, the search returns the empty
\* result (no messages, total_found 0, no exception) and process_query
\* answers no_results, not error.
C18_IndexErrorIsEmptyResult ==
    IndexQueryRaised =>
        /\ ~query.search_result.raised
        /\ query.search_result.messages = <<>>
        /\ query.search_result.total_found = 0
        /\ query.message_ids = None
        /\ QueryDone =>
              /\ query.failed_at = "none"
              /\ query.response = NoResultsResponse

\* The index held candidates within the threshold, the query raised, and the
\* response is no_results.
C18_Witness ==
    /\ IndexQueryRaised /\ QueryDone
    /\ Retained(query.index) # <<>>
    /\ query.response.status = "no_results"

\* The rows of the open transaction of an orchestrator.
OpenRows(w) == session[w].flushed \cup SeqToSet(session[w].pending)

\* The run of w is cancelled in this step.
Cancelled(w) == pc[w] # "cancelled" /\ pc'[w] = "cancelled"

\* A row with every column written.
CompleteRow(r) ==
    /\ r.message_id # ""
    /\ r.expanded_text \notin {NullText, MissingText}
    /\ r.model_used # ""

\* C19: a cancellation or shutdown at any point of a run leaves the Expansion
\* Store as it was committed: the step changes no row, drops the rows of the
\* open transaction and frees the write lock; the store only ever changes by
\* a whole commit, never loses a row, and holds complete rows only.
C19_CancelLeavesCommittedRows ==
    [][ /\ \A w \in active :
              Cancelled(w) =>
                  /\ expansions' = expansions
                  /\ session'[w] = CleanSession
                  /\ writeLock' # w
        /\ expansions \sqsubseteq expansions'
        /\ expansions' # expansions =>
              \E w \in active :
                  /\ pc[w] = "save" /\ items_left[w] = 0
                  /\ expansions' = CommitRows(expansions, OpenRows(w))
        /\ \A r \in StoreRows(expansions') : CompleteRow(r)
      ]_vars

\* A run cancelled in the save loop of a later batch, after it had added a row
\* to the open transaction: the rows of the earlier batches are in the store,
\* the row of the open transaction is not.
C19_Witness ==
    \E w \in active :
        /\ pc[w] = "cancelled"
        /\ outcome[w] = "none" /\ flush_error[w] = "none"
        /\ saved_count[w] > 0
        /\ total_processed[w] > 0
        /\ expansions # EmptyBag
        /\ RowIds(StoreRows(expansions)) = run_saved[w] \cup last_ids[w]
        /\ Uncovered(expansions) # {}

\* The identifier and text of each message or source message.
Shown(items) ==
    [i \in 1..Len(items) |-> [message_id |-> items[i].message_id, text |-> items[i].text]]

\* C20: in every success response the source messages number at most
\* max_context_messages and are the leading search results, in rank order,
\* which are the messages placed in the answer-generation prompt.
C20_SourcesAreLeadingResults ==
    QuerySucceeded =>
        LET sources == query.response.source_messages
            ranked == SelectSeq(query.message_ids[1], InStore)
        IN /\ Len(sources) <= query.max_context_messages
           /\ Len(sources) <= Len(query.search_result.messages)
           /\ Len(sources) =
                  Min(query.max_context_messages, Len(query.search_result.messages))
           /\ Shown(sources) = Shown(SubSeq(query.search_result.messages, 1, Len(sources)))
           /\ IdsOf(sources) = SubSeq(ranked, 1, Len(sources))
           /\ Shown(sources) = Shown(query.llm_prompt.context_messages)

\* A debug success response cut to one source out of two search results.
C20_Witness ==
    /\ QuerySucceeded /\ query.debug
    /\ query.max_context_messages = 1
    /\ Len(query.search_result.messages) = 2
    /\ Len(query.response.source_messages) = 1
    /\ query.response.source_messages[1].message_id = query.message_ids[1][1]

------------------------------------------------------------------------------
(* Properties of the statistics and the startup check *)

\* The startup check of w reads the statistics in this step.
StatsRead(w) == StartupCheck(w)

\* Messages whose text is neither NULL nor the empty string.
NonEmptyCount == Cardinality({m \in messages : m.text # Null /\ Len(m.text) > 0})

\* C21: get_expansion_stats returns total = the number of messages with
\* non-empty text, expanded = the number of Expansion rows, pending = total -
\* expanded, and completion_percentage = expanded / total * 100 (here in
\* hundredths of a percent), 0 when total is 0.
C21_StatsValues ==
    [][ \A w \in active :
            StatsRead(w) =>
                /\ stats'.total_messages = NonEmptyCount
                /\ stats'.expanded_messages = BagCardinality(expansions)
                /\ stats'.pending_messages =
                       stats'.total_messages - stats'.expanded_messages
                /\ stats'.total_messages = 0 => stats'.completion_percentage = 0
                /\ stats'.total_messages > 0 =>
                       stats'.completion_percentage =
                           (stats'.expanded_messages * 10000) \div stats'.total_messages
      ]_vars

\* Statistics read over a store with a whitespace-only message and a message
\* with text, one row in the Expansion Store: 1 of 2, 50 percent.
C21_Witness ==
    /\ stats.read
    /\ \E m \in messages : Eligible(m) /\ ~HasText(m)
    /\ stats.total_messages = 2 /\ stats.expanded_messages = 1
    /\ stats.pending_messages = 1
    /\ stats.completion_percentage = 5000

\* The pending set process_new_messages computes in this state.
PendingNow == NewMessages(ProcessedIds(expansions))

\* C29 as stated: the pending count the statistics report is the size of the
\* pending set process_new_messages would compute in the same state, never
\* negative, and the startup check invokes the orchestrator exactly when an
\* eligible message lacks an Expansion row.
C29_PendingCountIsPendingSet ==
    [][ \A w \in active :
            StatsRead(w) =>
                /\ stats'.pending_messages = Len(PendingNow)
                /\ stats'.pending_messages >= 0
                /\ runs'[w] = runs[w] + 1 <=> Uncovered(expansions) # {}
      ]_vars

------------------------------------------------------------------------------
(* Properties of the LLM factory *)

ProviderCalled == provider.calls > 0 /\ "last" \in DOMAIN provider

\* C22: create_provider resolves the provider as the explicit name when one
\* is given (None and the empty string give none), else the value of
\* LLM_PROVIDER, else openai; for a resolved name outside {openai, anthropic}
\* it raises the ValueError that names the unknown provider and constructs no
\* provider; for a name of the registry it constructs that provider.
C22_ProviderResolution ==
    ProviderCalled =>
        LET last == provider.last
            given == last.provider_name \notin {<<>>, <<"">>}
            expected == IF given THEN last.provider_name[1]
                        ELSE IF provider.env # <<>> THEN provider.env[1]
                        ELSE "openai"
        IN /\ last.resolved = expected
           /\ expected \notin {"openai", "anthropic"} =>
                 /\ last.error = <<"Unknown provider: " \o expected
                                   \o ". Available providers: ['openai', 'anthropic']">>
                 /\ last.instance = <<>>
           /\ expected = "openai" =>
                 last.error = <<>> /\ last.instance = <<"OpenAIProvider">>
           /\ expected = "anthropic" =>
                 last.error = <<>> /\ last.instance = <<"AnthropicProvider">>
           /\ Len(provider.constructed) + provider.raised = provider.calls

\* A call without a name under LLM_PROVIDER=anthropic that constructed the
\* Anthropic provider, after a call with the name "unknown" that raised.
C22_Witness ==
    /\ ProviderCalled
    /\ provider.calls = 2 /\ provider.raised = 1
    /\ provider.env = <<"anthropic">>
    /\ provider.last.provider_name = <<>>
    /\ provider.constructed = <<"AnthropicProvider">>

------------------------------------------------------------------------------
(* Properties of the batch loop *)

\* Every window starts after the one before it.
StartsIncrease ==
    \A i \in 1..(Len(win.out) - 1) : win.out[i + 1][1] > win.out[i][1]

\* The loop makes at most one pass per pending message.
PassesBounded == Len(win.out) <= win.n /\ (~win.done => win.start < win.n)

\* C23: for every batch size B >= 1 and every number of pending messages the
\* batch loop terminates, and each batch starts at a strictly greater index
\* than the one before it.
C23_LoopTerminates ==
    /\ <>win.done
    /\ [](StartsIncrease /\ PassesBounded)

\* The loop ended after twelve passes of batch size 1 over twelve messages.
C23_Witness ==
    /\ win.done /\ win.B = 1 /\ win.n = MaxWinMsgs
    /\ Len(win.out) = MaxWinMsgs

------------------------------------------------------------------------------
(* Properties of the save loop *)

\* The rows of valid items the save loop of w has added in this batch.
ValidOpenRows(w) == {r \in OpenRows(w) : CompleteRow(r)}

\* C24 as stated: a failure while saving one item of a response does not
\* abort the batch; the row of every other valid item stays in the batch's
\* transaction until it is persisted, and is counted in what the batch returns.
C24_ItemFailureKeepsOthers ==
    [][ \A w \in active :
            pc[w] = "save" =>
                /\ \A r \in ValidOpenRows(w) :
                       \/ r \in session'[w].flushed \cup SeqToSet(session'[w].pending)
                       \/ r \in StoreRows(expansions')
                /\ pc'[w] # "save" =>
                       processed_count'[w] >= Cardinality(ValidOpenRows(w))
      ]_vars

------------------------------------------------------------------------------
(* Properties of the Vector Index *)

\* A query is served in this step.
Served == vindex'.served = vindex.served + 1

\* The document of the entry of a message: from its Expansion row if one
\* exists, from its raw text otherwise.
EntryOf(m) ==
    [message_id |-> MessageId(m),
     document |-> IF MessageId(m) \in ProcessedIds(expansions)
                  THEN [from |-> "expansion",
                        text |-> (CHOOSE r \in RowsOf(MessageId(m)) : TRUE).expanded_text]
                  ELSE [from |-> "raw", text |-> ToString(m.text)]]

\* C25 as stated: at every query served the Vector Index holds, for every
\* message with non-empty text, the entry derived from its expanded text if
\* an Expansion row exists and from its raw text otherwise.
C25_IndexCurrentAtQuery ==
    [][ Served =>
            \A m \in messages : Eligible(m) => EntryOf(m) \in vindex'.entries
      ]_vars

------------------------------------------------------------------------------
(* Properties of the search result *)

NoDuplicates(ids) ==
    \A i, j \in 1..Len(ids) : i # j => ids[i] # ids[j]

\* C26: the messages search_relevant_messages returns, and the source
\* messages of the response, hold no identifier twice, for every candidate
\* list of the index and every set and order of rows the store returns,
\* rows of one telegram_id in two chats included.
C26_NoDuplicateIds ==
    query.pc # "none" =>
        /\ NoDuplicates(IdsOf(query.search_result.messages))
        /\ query.search_result.messages_with_scores # None =>
               NoDuplicates([i \in 1..Len(query.search_result.messages_with_scores[1]) |->
                   query.search_result.messages_with_scores[1][i].message.message_id])
        /\ QueryDone => NoDuplicates(IdsOf(query.response.source_messages))

\* The store returned both rows of telegram_id 1 and the row of 2; the
\* response has the two sources "1" and "2".
C26_Witness ==
    /\ QuerySucceeded
    /\ Len(query.db_messages) = 3
    /\ Len(query.response.source_messages) = 2
    /\ {query.response.source_messages[i].message_id : i \in 1..2} = {"1", "2"}

\* A step of search_relevant_messages.
SearchStep == query.pc \in {"rewrite", "vector", "hydrate"} /\ query' # query

\* C27: search_relevant_messages is read-only: in debug and in normal mode,
\* on every outcome, each of its steps leaves the Message Store, the Expansion
\* Store with its write lock and the Vector Index as they were; its one
\* external effect is the completion call of the rewrite, at most one.
C27_SearchReadOnly ==
    [][ SearchStep =>
            /\ messages' = messages
            /\ expansions' = expansions
            /\ writeLock' = writeLock
            /\ vindex' = vindex
            /\ query'.index = query.index
            /\ query'.answer_calls = query.answer_calls
            /\ query'.completion_calls # query.completion_calls =>
                   /\ query.pc = "rewrite"
                   /\ query'.completion_calls = query.completion_calls + 1
      ]_vars

\* A debug search that returned messages, with the stores and the index as
\* they were before it and one completion call made.
C27_Witness ==
    /\ query.pc = "agent" /\ query.debug
    /\ query.search_result.messages # <<>>
    /\ query.completion_calls = 1 /\ Len(query.vector_queries) = 1
    /\ messages = QueryStore /\ expansions = QueryExpansions
    /\ vindex = PopulatedIndex(QueryStore, QueryExpansions)

\* Times message m is listed in a sequence of messages.
Occurrences(listed, m) == Cardinality({i \in 1..Len(listed) : listed[i] = m})

\* The rows the context query of a batch returns, in chronological order: the
\* latest ContextWindow messages of the chat of the earliest batch message that
\* are dated before it.
ContextOf(valid) ==
    LET earliest == Head(OrderByDate(SeqToSet(valid)))
        before == {m \in messages : /\ m.chat_id = earliest.chat_id
                                    /\ m.telegram_date < earliest.telegram_date}
    IN Reverse(Take(Reverse(OrderByDate(before)), ContextWindow))

\* C28: the prompt expand_batch_and_save builds lists each context message once
\* and each batch message once, the context first in chronological order and
\* then the batch, and the identifiers it asks the model to expand are those of
\* the batch messages with non-blank text.
C28_PromptListsEachOnce ==
    \A w \in active :
        prompt[w].built =>
            LET valid == SelectSeq(prompt[w].batch, HasText)
            IN /\ prompt[w].listed = ContextOf(valid) \o valid
               /\ \A m \in SeqToSet(prompt[w].listed) :
                      Occurrences(prompt[w].listed, m) = 1
               /\ prompt[w].batch_ids = [i \in 1..Len(valid) |-> MessageId(valid[i])]

\* Text of length 0, and text of spaces only.
EmptyText(m) == m.text # Null /\ Len(m.text) = 0
WhitespaceOnly(m) ==
    /\ m.text # Null /\ Len(m.text) > 0
    /\ \A i \in 1..Len(m.text) : IsSpace(m.text[i])

\* The batch the next pass of the loop hands to expand_batch_and_save.
CurrentBatch(w) ==
    SubSeq(new_messages[w], batch_start[w] + 1,
           BatchEnd(batch_start[w], batch_size[w], Len(new_messages[w])))

\* expand_batch_and_save called on a batch of empty or whitespace-only messages.
BlankBatchStep(w) ==
    /\ ExpandBatch(w)
    /\ \A i \in 1..Len(CurrentBatch(w)) :
           EmptyText(CurrentBatch(w)[i]) \/ WhitespaceOnly(CurrentBatch(w)[i])

\* C30: a message whose text is empty or whitespace-only is never among the
\* identifiers requested for expansion; a batch made only of such messages
\* makes no model call, returns 0 and leaves the Expansion Store unchanged;
\* yet a whitespace-only message is counted by the stats query and, while it
\* has no row, is in the pending list of every run.
C30_BlankNeverRequested ==
    [][ \A w \in active :
            /\ \A m \in messages :
                   EmptyText(m) \/ WhitespaceOnly(m) =>
                       MessageId(m) \notin SeqToSet(requested'[w])
            /\ BlankBatchStep(w) =>
                   /\ prompt'[w].built = FALSE
                   /\ outcome'[w] = "no_text"
                   /\ processed_count'[w] = 0
                   /\ total_processed'[w] = total_processed[w]
                   /\ expansions' = expansions
            /\ StatsRead(w) =>
                   /\ stats'.total_messages =
                          Cardinality({m \in messages : HasText(m)})
                              + Cardinality({m \in messages : WhitespaceOnly(m)})
                   /\ runs'[w] # runs[w] =>
                          \A m \in messages :
                              WhitespaceOnly(m) /\ MessageId(m) \notin ProcessedIds(expansions)
                                  => m \in SeqToSet(new_messages'[w])
      ]_vars

\* A run the startup check started for a whitespace-only message alone: its
\* batch made no model call and returned 0, and the message is still pending.
C30_Witness ==
    \E w \in active :
        /\ stats.read /\ stats.pending_messages = 1
        /\ pc[w] = "done" /\ outcome[w] = "no_text" /\ ret[w] = 0
        /\ ~prompt[w].built
        /\ Len(new_messages[w]) = 1 /\ WhitespaceOnly(new_messages[w][1])
        /\ expansions # EmptyBag
        /\ MessageId(new_messages[w][1]) \in Uncovered(expansions)

====
